---- MODULE Spec2Model ----
(***************************************************************************)
(* Weather forecaster (src/src/forecaster.rs): the condition catalog, the  *)
(* sanitisation of the configured probabilities and slot counts in         *)
(* WeatherForecaster::new, weighted sampling with rejection, and the       *)
(* Race -> Qualifying -> Practice pipeline of generate_forecast.           *)
(*                                                                         *)
(* Probabilities are f64 in the source and in the model: every sum,        *)
(* difference, product and quotient of weights is rounded as IEEE 754      *)
(* binary64 rounds it.  HashMap::values() iterates in an order that differs *)
(* from one run to the next (RandomState), and an f64 sum depends on the   *)
(* order of its terms: values().sum() is the set of the sums of all orders, *)
(* and WeatherForecaster::new takes any of them.                           *)
(***************************************************************************)
EXTENDS Integers, Sequences, FiniteSets, TLC

\* ------------------------------------------------------------------ catalog

\* enum WeatherOptions, in declaration order (the order of WeatherOptions::iter()).
OptionOrder ==
    << "Clear", "LightCloud", "MediumCloud", "HeavyCloud", "Overcast",
       "LightRain", "Rain", "Storm", "Thunderstorm", "Foggy", "FogWithRain",
       "HeavyFog", "HeavyFogWithRain", "Hazy", "Random" >>

WeatherOptions == { OptionOrder[i] : i \in 1..Len(OptionOrder) }

\* enum Sessions.
Sessions == { "Practice", "Qualifying", "Race" }

\* ------------------------------------------------------------------ f64

\* Probabilities are f64.  A finite positive f64 is [hi, lo, e] for the value
\* (hi * 2^27 + lo) * 2^e with a significand of 53 bits: 2^25 <= hi < 2^26
\* and 0 <= lo < 2^27 (an integer of TLC has 32 bits, so the significand is
\* kept in two words).  Weights are never negative, and neither subnormal
\* numbers nor overflow are within reach of sums and quotients of weights.
\* Intermediate results carry three more bits (guard, round and sticky) in
\* a low word of 30 bits before they are rounded to nearest, ties to even.
Word == 2^27

Top == 2^26

Ext == 2^30

Zero == [ hi |-> 0, lo |-> 0, e |-> 0 ]

\* The NaN of 0.0 * inf.  Every comparison with it is false.
NaN == [ hi |-> 0, lo |-> 0, e |-> 1 ]

\* v with its lowest bit set when bits were lost below it.
Sticky(v, lost) == IF lost /\ v % 2 = 0 THEN v + 1 ELSE v

\* hi * 2^30 + lo shifted right by d bits: << hi, lo, bits were lost >>.
ShiftRight(hi, lo, d) ==
    IF d = 0 THEN << hi, lo, FALSE >>
    ELSE IF d < 30
    THEN LET p == 2^d
         IN << hi \div p, (lo \div p) + (hi % p) * 2^(30 - d), lo % p # 0 >>
    ELSE IF d < 60
    THEN LET p == 2^(d - 30)
         IN << 0, hi \div p, lo # 0 \/ hi % p # 0 >>
    ELSE << 0, 0, TRUE >>

\* The number of bits of 0 < v < 2^30.
BitLength(v) == CHOOSE k \in 1..30 : v < 2^k /\ (k = 1 \/ 2^(k - 1) <= v)

\* The f64 nearest to (hi * 2^30 + lo) * 2^(e - 3) for 2^25 <= hi < 2^27,
\* ties to the even significand.
Round(hi, lo, e) ==
    LET wide == hi >= Top
        h    == IF wide THEN hi \div 2 ELSE hi
        l    == IF wide THEN Sticky((lo \div 2) + (hi % 2) * 2^29, lo % 2 = 1) ELSE lo
        x    == IF wide THEN e + 1 ELSE e
        grs  == l % 8
        ml   == l \div 8
        up   == grs > 4 \/ (grs = 4 /\ ml % 2 = 1)
        ml1  == IF up THEN ml + 1 ELSE ml
        h1   == IF ml1 = Word THEN h + 1 ELSE h
    IN IF h1 = Top THEN [ hi |-> Top \div 2, lo |-> 0, e |-> x + 1 ]
       ELSE [ hi |-> h1, lo |-> ml1 % Word, e |-> x ]

\* An integer 0 <= n < 2^26 as f64.
FromInt(n) ==
    IF n = 0 THEN Zero
    ELSE LET k == BitLength(n)
         IN [ hi |-> n * 2^(26 - k), lo |-> 0, e |-> k - 53 ]

One == FromInt(1)

\* a < b.
Less(a, b) ==
    IF a = NaN \/ b = NaN \/ b = Zero THEN FALSE
    ELSE IF a = Zero THEN TRUE
    ELSE IF a.e # b.e THEN a.e < b.e
    ELSE IF a.hi # b.hi THEN a.hi < b.hi
    ELSE a.lo < b.lo

\* a + b.
FAdd(a, b) ==
    IF a = NaN \/ b = NaN THEN NaN
    ELSE IF a = Zero THEN b
    ELSE IF b = Zero THEN a
    ELSE LET x  == IF a.e >= b.e THEN a ELSE b
             y  == IF a.e >= b.e THEN b ELSE a
             sh == ShiftRight(y.hi, y.lo * 8, x.e - y.e)
             lo == x.lo * 8 + Sticky(sh[2], sh[3])
         IN Round(x.hi + sh[1] + (lo \div Ext), lo % Ext, x.e)

\* a - b for a >= b.
FSub(a, b) ==
    IF b = Zero THEN a
    ELSE IF a = b THEN Zero
    ELSE LET sh   == ShiftRight(b.hi, b.lo * 8, a.e - b.e)
             less == IF sh[3] THEN 1 ELSE 0
             lo   == a.lo * 8 - sh[2] - less
             l    == IF lo < 0 THEN lo + Ext ELSE lo
             h    == a.hi - sh[1] - (IF lo < 0 THEN 1 ELSE 0)
             len  == IF h > 0 THEN 30 + BitLength(h) ELSE BitLength(l)
             k    == 56 - len
             hk   == IF k < 30 THEN h * 2^k + (l \div 2^(30 - k)) ELSE l * 2^(k - 30)
             lk   == IF k < 30 THEN (l % 2^(30 - k)) * 2^k ELSE 0
         IN Round(hk, Sticky(lk, sh[3]), a.e - k)

\* The four digits of 14 bits of a significand, least significant first.
Digits(a) ==
    << a.lo % 2^14, (a.lo \div 2^14) + (a.hi % 2) * 2^13, (a.hi \div 2) % 2^14, a.hi \div 2^15 >>

\* a * b.
FMul(a, b) ==
    IF a = Zero \/ b = Zero THEN Zero
    ELSE LET x  == Digits(a)
             y  == Digits(b)
             D  == 2^14
             c0 == x[1] * y[1]
             c1 == x[1] * y[2] + x[2] * y[1] + (c0 \div D)
             c2 == x[1] * y[3] + x[2] * y[2] + x[3] * y[1] + (c1 \div D)
             c3 == x[1] * y[4] + x[2] * y[3] + x[3] * y[2] + x[4] * y[1] + (c2 \div D)
             c4 == x[2] * y[4] + x[3] * y[3] + x[4] * y[2] + (c3 \div D)
             c5 == x[3] * y[4] + x[4] * y[3] + (c4 \div D)
             c6 == x[4] * y[4] + (c5 \div D)
             p3 == c3 % D
             p4 == c4 % D
             p5 == c5 % D
             p6 == c6 % D
             p7 == c6 \div D
             t  == IF p7 >= 2^7 THEN 8 ELSE 7
             lost == p3 % 2^t # 0 \/ c2 % D # 0 \/ c1 % D # 0 \/ c0 % D # 0
             lo == (p3 \div 2^t) + p4 * 2^(14 - t) + (p5 % 2^(t + 2)) * 2^(28 - t)
             hi == (p5 \div 2^(t + 2)) + p6 * 2^(12 - t) + p7 * 2^(26 - t)
         IN Round(hi, Sticky(lo, lost), a.e + b.e + 42 + t + 3)

RECURSIVE DivSteps(_, _, _, _, _, _, _)
\* n more bits of the quotient qh * 2^30 + ql of a long division by
\* dh * 2^27 + dl; rh * 2^27 + rl is the remainder so far.  The lowest bit
\* of the quotient is set at the end if a remainder is left.
DivSteps(rh, rl, dh, dl, qh, ql, n) ==
    IF n = 0 THEN << qh, Sticky(ql, rh # 0 \/ rl # 0) >>
    ELSE LET tl   == (2 * rl) % Word
             th   == 2 * rh + ((2 * rl) \div Word)
             fits == th > dh \/ (th = dh /\ tl >= dl)
             sl   == IF fits THEN tl - dl ELSE tl
             nl   == IF sl < 0 THEN sl + Word ELSE sl
             nh   == IF fits THEN th - dh - (IF sl < 0 THEN 1 ELSE 0) ELSE th
             q    == 2 * ql + (IF fits THEN 1 ELSE 0)
             nqh  == 2 * qh + (q \div Ext)
         IN IF nl + nh + nqh >= 0 THEN DivSteps(nh, nl, dh, dl, nqh, q % Ext, n - 1)
            ELSE << >>

\* a / b for b > 0.
FDiv(a, b) ==
    IF a = Zero THEN Zero
    ELSE LET fits == a.hi > b.hi \/ (a.hi = b.hi /\ a.lo >= b.lo)
             sl   == a.lo - b.lo
             q    == IF fits
                     THEN DivSteps(a.hi - b.hi - (IF sl < 0 THEN 1 ELSE 0),
                                   IF sl < 0 THEN sl + Word ELSE sl, b.hi, b.lo, 0, 1, 55)
                     ELSE DivSteps(a.hi, a.lo, b.hi, b.lo, 0, 0, 56)
         IN Round(q[1], q[2], a.e - b.e - (IF fits THEN 52 ELSE 53))

\* The f64 of the decimal literal n / d (d a power of ten), and of k / d for
\* a power of two d: the f64 nearest to the fraction.
Decimal(n, d) == FDiv(FromInt(n), FromInt(d))

\* ------------------------------------------------------------------ weights

\* A faulty catalog (Clear at 2.0 / 14.0), which C10 must tell from the source's.
DefaultProbabilityClearTwo(option) ==
    LET numerator == CASE option = "Clear" -> 20
                       [] option \in { "LightCloud", "MediumCloud", "Hazy" } -> 20
                       [] option \in { "HeavyCloud", "Overcast", "Foggy", "HeavyFog" } -> 10
                       [] option = "LightRain" -> 4
                       [] option \in { "Storm", "Thunderstorm" } -> 3
                       [] option \in { "Rain", "FogWithRain", "HeavyFogWithRain" } -> 2
                       [] option = "Random" -> 0
    IN FDiv(Decimal(numerator, 10), FromInt(14))

\* The numerators of the match arms of get_default_probabiliy, in tenths
\* (2.4 is 24); the arm of Random is the literal 0.0.
DefaultNumerator(option) ==
    CASE option = "Clear"            -> 24
      [] option = "LightCloud"       -> 20
      [] option = "MediumCloud"      -> 20
      [] option = "HeavyCloud"       -> 10
      [] option = "Overcast"         -> 10
      [] option = "LightRain"        -> 4
      [] option = "Rain"             -> 2
      [] option = "Storm"            -> 3
      [] option = "Thunderstorm"     -> 3
      [] option = "Foggy"            -> 10
      [] option = "FogWithRain"      -> 2
      [] option = "HeavyFog"         -> 10
      [] option = "HeavyFogWithRain" -> 2
      [] option = "Hazy"             -> 20
      [] option = "Random"           -> 0

\* get_default_probabiliy: the f64 quotient of the literal numerator by 14.0.
get_default_probabiliy(option) == FDiv(Decimal(DefaultNumerator(option), 10), FromInt(14))

\* Faulty groups (Storm and Thunderstorm, of equal rain intensity, in a group
\* each), which C14 must tell from the source's.
WeatherGroupsStormAlone ==
    { {"Clear", "LightCloud"},
      {"MediumCloud", "HeavyCloud", "Overcast"},
      {"LightRain"},
      {"Rain", "FogWithRain", "HeavyFogWithRain"},
      {"Storm"},
      {"Thunderstorm"},
      {"Foggy", "HeavyFog", "Hazy"},
      {"Random"} }

\* The groups of the weather_groups! macro call.
WeatherGroups ==
    { {"Clear", "LightCloud"},
      {"MediumCloud", "HeavyCloud", "Overcast"},
      {"LightRain"},
      {"Rain", "FogWithRain", "HeavyFogWithRain"},
      {"Storm", "Thunderstorm"},
      {"Foggy", "HeavyFog", "Hazy"},
      {"Random"} }

\* get_group: the match arm whose pattern names the option.
get_group(option) == CHOOSE g \in WeatherGroups : option \in g

rain_intensity(option) ==
    CASE option = "LightRain"        -> 1
      [] option = "Rain"             -> 2
      [] option = "Storm"            -> 3
      [] option = "Thunderstorm"     -> 3
      [] option = "FogWithRain"      -> 2
      [] option = "HeavyFogWithRain" -> 2
      [] OTHER                       -> 0

\* get_default_probablities: every option mapped to its default weight.
get_default_probablities == [ o \in WeatherOptions |-> get_default_probabiliy(o) ]

\* ------------------------------------------------------------------ helpers

RECURSIVE SumsFrom(_, _)
\* The sums an iterator can end with when n values are still to come: front
\* holds, for every way the iteration can have gone so far, the values not
\* yet visited (with their counts) and the partial sum.
SumsFrom(front, n) ==
    IF n = 0 THEN { s[2] : s \in front }
    ELSE SumsFrom(UNION { { << [ s[1] EXCEPT ![v] = @ - 1 ], FAdd(s[2], v) >> :
                              v \in { w \in DOMAIN s[1] : s[1][w] > 0 } } :
                          s \in front },
                  n - 1)

\* values().sum() of a HashMap holding f over the keys S: the f64 additions
\* are made in the iteration order of the map, which its RandomState changes
\* from one map to the next, so the result is one of the sums over the orders
\* of the values.  Adding 0.0 changes no partial sum.
SumOver(f, S) ==
    LET vals == { f[x] : x \in S } \ { Zero }
        bag  == [ v \in vals |-> Cardinality({ x \in S : f[x] = v }) ]
    IN SumsFrom({ << bag, Zero >> }, Cardinality({ x \in S : f[x] # Zero }))

\* usize::clamp.
Clamp(x, lo, hi) == IF x < lo THEN lo ELSE IF x > hi THEN hi ELSE x

Range(s) == { s[i] : i \in 1..Len(s) }

\* ------------------------------------------------------------------ Config

\* Config::default().weather_slots.
DefaultWeatherSlots == [ s \in Sessions |->
    CASE s = "Practice" -> 4 [] s = "Qualifying" -> 2 [] s = "Race" -> 4 ]

\* Config::default(): every option listed with its default weight.
DefaultConfig ==
    [ probabilities |-> get_default_probablities, weather_slots |-> DefaultWeatherSlots ]

\* The clamp bounds of the slot counts in WeatherForecaster::new.
MinSlots == 1
MaxSlots == 4

\* ------------------------------------------------------- WeatherForecaster::new

\* config.probabilities.values().sum(): the sums the map's order can give.
accumulated_probability(config) ==
    SumOver(config.probabilities, DOMAIN config.probabilities)

\* WeatherOptions::iter().len() - config.probabilities.len().
missing_entries(config) ==
    Cardinality(WeatherOptions) - Cardinality(DOMAIN config.probabilities)

\* (1.0 - accumulated_probability).clamp(0.0, 1.0) for the sum accumulated
\* (a sum of weights in [0, 1] is at least 0.0, so the upper clamp is idle).
remaining_probability(accumulated) ==
    IF Less(accumulated, One) THEN FSub(One, accumulated) ELSE Zero

\* The table before normalisation: a listed option keeps its weight, every
\* other one gets remaining_options_probability = remaining / missing.
initial_probabilities(config, accumulated) ==
    LET missing == missing_entries(config)
        remaining_options_probability ==
            IF missing # 0
            THEN FDiv(remaining_probability(accumulated), FromInt(missing))
            ELSE Zero
    IN [ o \in WeatherOptions |->
           IF o \in DOMAIN config.probabilities
           THEN config.probabilities[o]
           ELSE remaining_options_probability ]

\* The assertion sum <= 1.0 of normalize_probabilities fails.
SumExceedsOne(sum) == Less(One, sum)

\* normalize_probabilities past its assertion: factor = 1.0 / sum and every
\* weight times factor.  A sum of 0.0 gives the factor inf, and 0.0 * inf is
\* NaN for every entry (all of them are 0.0 then).
normalize_probabilities(p, sum) ==
    IF sum = Zero
    THEN [ o \in WeatherOptions |-> NaN ]
    ELSE LET factor == FDiv(One, sum)
         IN [ o \in WeatherOptions |-> FMul(p[o], factor) ]

\* A faulty sanitisation (no upper clamp), which C8 must tell from the source's.
SanitizeWithoutUpperClamp(config) ==
    [ s \in Sessions |->
        LET asked == IF s \in DOMAIN config.weather_slots
                     THEN config.weather_slots[s]
                     ELSE DefaultWeatherSlots[s]
        IN IF asked < MinSlots THEN MinSlots ELSE asked ]

\* The slot sanitisation: the default for a session that is not configured,
\* and every count clamped into [1, 4].
sanitize_weather_slots(config) ==
    [ s \in Sessions |->
        Clamp(IF s \in DOMAIN config.weather_slots
              THEN config.weather_slots[s]
              ELSE DefaultWeatherSlots[s],
              MinSlots, MaxSlots) ]

\* ------------------------------------------------------------------ state

VARIABLES
    config,          \* the Config handed to WeatherForecaster::new
    pc,              \* "new", "panic", "ready", or the phase of generate_forecast
    warned,          \* the WARN lines of new were written to stderr
    probabilities,   \* WeatherForecaster.probabilities: option -> f64
    current_values,  \* the values current_value takes in a walk over that table
    weather_slots,   \* WeatherForecaster.weather_slots
    sessions,        \* the sessions argument of the running generate_forecast
    forecast,        \* WeatherForecast.forecast: session -> sequence of options
    options,         \* the Vec being filled by generate_single_session_forecast
    race_rain,       \* Option<WeatherOptions>: <<>> is None, <<o>> is Some(o)
    practice_rain    \* Option<WeatherOptions>, likewise

vars == << config, pc, warned, probabilities, current_values, weather_slots, sessions, forecast,
           options, race_rain, practice_rain >>

None == << >>
Some(o) == << o >>

\* The table of a forecaster that does not exist yet.
NoTable == [ o \in WeatherOptions |-> Zero ]

\* ------------------------------------------------------------------ sampling

\* The least multiple of 2^-53 that is not below the f64 c >= 0.0.
GridCeil(c) ==
    LET s == (0 - 53) - c.e
    IN IF c = Zero \/ s <= 0 THEN c
       ELSE IF s >= 53 THEN [ hi |-> Top \div 2, lo |-> 0, e |-> 0 - 105 ]
       ELSE LET p  == IF s <= 27 THEN 2^s ELSE 2^(s - 27)
                l  == IF s <= 27 THEN ((c.lo + p - 1) \div p) * p ELSE 0
                up == IF s <= 27 THEN l = Word ELSE c.lo # 0
                hp == IF s <= 27 THEN 1 ELSE p
                h  == (((c.hi + hp - 1) \div hp) + (IF up /\ c.hi % hp = 0 THEN 1 ELSE 0)) * hp
            IN IF h = Top THEN [ hi |-> Top \div 2, lo |-> 0, e |-> c.e + 1 ]
               ELSE [ hi |-> h, lo |-> l % Word, e |-> c.e ]

RECURSIVE CurrentValue(_, _)
\* current_value of generate_weather_option after the first i options of
\* the for loop: the f64 additions current_value += probability, from 0.0.
CurrentValue(p, i) ==
    IF i = 0 THEN Zero ELSE FAdd(CurrentValue(p, i - 1), p[OptionOrder[i]])

\* The values of current_value in a walk over the table p, one for every
\* position of the for loop.  They are the same in every call on p.
CurrentValues(p) == [ i \in 1..Len(OptionOrder) |-> CurrentValue(p, i) ]

\* The values of self.rng.random() that a walk with the values cv of
\* current_value can tell apart.  random() gives the multiples of 2^-53 in
\* [0, 1); the walk compares the draw with the values of current_value only,
\* so a draw selects what the greatest of these draws not above it selects:
\* 0.0, and for every value of current_value the least draw not below it.
DrawRange(cv) ==
    { Zero } \cup { r \in { GridCeil(cv[i]) : i \in { j \in DOMAIN cv : cv[j] # NaN } } :
                     Less(r, One) }

RECURSIVE Walk(_, _, _)
\* The for loop of generate_weather_option from position i on, cv[i] being
\* current_value at position i: the first option at which current_value
\* exceeds the draw r, and the initial value Clear of `selected` when the
\* loop ends without a break.
Walk(cv, r, i) ==
    IF i > Len(OptionOrder) THEN "Clear"
    ELSE IF Less(r, cv[i]) THEN OptionOrder[i]
    ELSE Walk(cv, r, i + 1)

\* One iteration of the loop of generate_weather_option: the option selected
\* for the draw r.
Selected(cv, r) == Walk(cv, r, 1)

\* A faulty return condition (might_rain ignored), which C7 must tell from
\* the source's.
AcceptedAny(option, might_rain) == TRUE

\* The return condition of that loop; a draw that fails it is drawn again.
Accepted(option, might_rain) == might_rain \/ rain_intensity(option) = 0

\* get_available_weather_options.
get_available_weather_options(p, with_rain) ==
    Cardinality({ o \in WeatherOptions :
                    (rain_intensity(o) = 0 \/ with_rain) /\ Less(Zero, p[o]) })

\* A faulty sampler (the first branch taken only for more usable options than
\* slots, > for >=), which C12 must tell from the source's.
PushDrawStrict(p, cv, opts, slots, might_rain, r) ==
    LET option == Selected(cv, r)
    IN IF ~Accepted(option, might_rain) THEN opts
       ELSE IF get_available_weather_options(p, might_rain) > slots
            THEN IF option \in Range(opts) THEN opts ELSE Append(opts, option)
            ELSE Append(opts, option)

\* A faulty sampler (every returned option is pushed, repeated or not), which
\* C6 must tell from the source's.
PushDrawAlways(p, cv, opts, slots, might_rain, r) ==
    LET option == Selected(cv, r)
    IN IF ~Accepted(option, might_rain) THEN opts ELSE Append(opts, option)

\* generate_single_session_forecast after one more draw r of
\* generate_weather_option: a draw the sampler rejects leaves the Vec as it
\* is (the sampler draws again); the first branch pushes only an option the
\* Vec does not contain, the second every option returned.
PushDraw(p, cv, opts, slots, might_rain, r) ==
    LET option == Selected(cv, r)
    IN IF ~Accepted(option, might_rain) THEN opts
       ELSE IF get_available_weather_options(p, might_rain) >= slots
            THEN IF option \in Range(opts) THEN opts ELSE Append(opts, option)
            ELSE Append(opts, option)

\* Iterator::max_by_key over rain_intensity: the last element of maximal key.
MaxByRainIntensity(seq) ==
    LET best == CHOOSE i \in 1..Len(seq) :
                  /\ \A j \in 1..Len(seq) : rain_intensity(seq[j]) <= rain_intensity(seq[i])
                  /\ \A j \in (i + 1)..Len(seq) : rain_intensity(seq[j]) < rain_intensity(seq[i])
    IN seq[best]

\* A faulty race_rain (the filter on rain_intensity > 0 left out), which C1
\* must tell from the source's.
RaceRainUnfiltered(fc) ==
    IF "Race" \in DOMAIN fc THEN Some(MaxByRainIntensity(fc["Race"])) ELSE None

\* race_rain of generate_forecast, from the forecast map.
RaceRain(fc) ==
    IF "Race" \in DOMAIN fc
    THEN LET m == MaxByRainIntensity(fc["Race"])
         IN IF rain_intensity(m) > 0 THEN Some(m) ELSE None
    ELSE None

\* HashMap::insert on the forecast.
Insert(fc, session, seq) ==
    [ s \in DOMAIN fc \cup {session} |-> IF s = session THEN seq ELSE fc[s] ]

\* The orders slice::shuffle can leave n elements in.
ShuffleOrders(n) == { f \in [1..n -> 1..n] : \A i, j \in 1..n : f[i] = f[j] => i = j }

Permuted(seq, f) == [ i \in 1..Len(seq) |-> seq[f[i]] ]

\* A faulty override (the first slot is overwritten, not the last), which C11
\* must tell from the source's.
OverrideFirst(seq, option) == [ seq EXCEPT ![1] = option ]

\* A faulty override (the last slot is left as sampled), which C2 must tell
\* from the source's.
OverrideSkipped(seq, option) == seq

\* *practice.last_mut().unwrap() = practice_rain.
OverrideLast(seq, option) == [ seq EXCEPT ![Len(seq)] = option ]

\* ------------------------------------------------------------------ actions

\* WeatherForecaster::new(config).  The sum of the configured weights is
\* taken and the warning written first; the table is collected into a map of
\* its own, whose sum normalize_probabilities takes: its assertion either
\* panics (no forecaster is returned) or lets the normalised table through.
New ==
    /\ pc = "new"
    /\ \E accumulated \in accumulated_probability(config) :
         LET initial == initial_probabilities(config, accumulated)
         IN \E sum \in SumOver(initial, WeatherOptions) :
              /\ warned' = Less(One, accumulated)
              /\ IF SumExceedsOne(sum)
                 THEN /\ pc' = "panic"
                      /\ UNCHANGED << probabilities, current_values, weather_slots >>
                 ELSE LET table == normalize_probabilities(initial, sum)
                      IN /\ pc' = "ready"
                         /\ probabilities' = table
                         /\ current_values' = CurrentValues(table)
                         /\ weather_slots' = sanitize_weather_slots(config)
    /\ UNCHANGED << config, sessions, forecast, options, race_rain, practice_rain >>

\* A call generate_forecast(requested) on the constructed forecaster: the
\* empty forecast.  A call leaves the forecaster as it found it, so every
\* later call starts from this state too.
Call(requested) ==
    /\ pc = "ready"
    /\ sessions' = requested
    /\ forecast' = << >>
    /\ options' = << >>
    /\ race_rain' = None
    /\ practice_rain' = None
    /\ pc' = "race"
    /\ UNCHANGED << config, warned, probabilities, current_values, weather_slots >>

\* Race is not requested: no entry, and race_rain is None.
SkipRace ==
    /\ pc = "race"
    /\ "Race" \notin sessions
    /\ race_rain' = RaceRain(forecast)
    /\ pc' = "quali"
    /\ UNCHANGED << config, warned, probabilities, current_values, weather_slots, sessions, forecast,
                    options, practice_rain >>

\* One draw of the Race session (might_rain = true); the draw that fills the
\* last slot inserts the entry and fixes race_rain.
DrawRace(r) ==
    /\ pc = "race"
    /\ "Race" \in sessions
    /\ LET opts == PushDraw(probabilities, current_values, options, weather_slots["Race"], TRUE, r)
       IN IF Len(opts) < weather_slots["Race"]
          THEN /\ options' = opts
               /\ UNCHANGED << forecast, race_rain, pc >>
          ELSE /\ options' = << >>
               /\ forecast' = Insert(forecast, "Race", opts)
               /\ race_rain' = RaceRain(forecast')
               /\ pc' = "quali"
    /\ UNCHANGED << config, warned, probabilities, current_values, weather_slots, sessions, practice_rain >>

SkipQuali ==
    /\ pc = "quali"
    /\ "Qualifying" \notin sessions
    /\ pc' = "practice_rain"
    /\ UNCHANGED << config, warned, probabilities, current_values, weather_slots, sessions, forecast,
                    options, race_rain, practice_rain >>

\* One draw of the Qualifying session (might_rain = race_rain.is_some()).
DrawQuali(r) ==
    /\ pc = "quali"
    /\ "Qualifying" \in sessions
    /\ LET opts == PushDraw(probabilities, current_values, options, weather_slots["Qualifying"],
                            race_rain # None, r)
       IN IF Len(opts) < weather_slots["Qualifying"]
          THEN /\ options' = opts
               /\ UNCHANGED << forecast, pc >>
          ELSE /\ options' = << >>
               /\ forecast' = Insert(forecast, "Qualifying", opts)
               /\ pc' = "practice_rain"
    /\ UNCHANGED << config, warned, probabilities, current_values, weather_slots, sessions, race_rain,
                    practice_rain >>

\* race_rain.map(..) on None: practice_rain is None and nothing is drawn.
SkipPracticeRain ==
    /\ pc = "practice_rain"
    /\ race_rain = None
    /\ practice_rain' = None
    /\ pc' = "practice"
    /\ UNCHANGED << config, warned, probabilities, current_values, weather_slots, sessions, forecast,
                    options, race_rain >>

\* One iteration of the loop of generate_weather_option_in_group(race_rain),
\* run whether or not Practice is requested: a draw outside the group is
\* drawn again.
DrawInGroup(r) ==
    /\ pc = "practice_rain"
    /\ race_rain # None
    /\ LET option == Selected(current_values, r)
       IN IF option \in get_group(race_rain[1])
          THEN /\ practice_rain' = Some(option)
               /\ pc' = "practice"
          ELSE UNCHANGED << practice_rain, pc >>
    /\ UNCHANGED << config, warned, probabilities, current_values, weather_slots, sessions, forecast,
                    options, race_rain >>

\* Practice is not requested: the forecast is returned.
SkipPractice ==
    /\ pc = "practice"
    /\ "Practice" \notin sessions
    /\ pc' = "done"
    /\ UNCHANGED << config, warned, probabilities, current_values, weather_slots, sessions, forecast,
                    options, race_rain, practice_rain >>

\* One draw of the Practice session (might_rain = race_rain.is_some()).  With
\* practice_rain None the draw that fills the last slot inserts the entry and
\* the forecast is returned; otherwise the override and the shuffle follow.
DrawPractice(r) ==
    /\ pc = "practice"
    /\ "Practice" \in sessions
    /\ LET opts == PushDraw(probabilities, current_values, options, weather_slots["Practice"],
                            race_rain # None, r)
       IN IF Len(opts) < weather_slots["Practice"]
          THEN /\ options' = opts
               /\ UNCHANGED << forecast, pc >>
          ELSE IF practice_rain = None
               THEN /\ options' = << >>
                    /\ forecast' = Insert(forecast, "Practice", opts)
                    /\ pc' = "done"
               ELSE /\ options' = opts
                    /\ pc' = "shuffle"
                    /\ UNCHANGED forecast
    /\ UNCHANGED << config, warned, probabilities, current_values, weather_slots, sessions, race_rain,
                    practice_rain >>

\* The last slot is overwritten with practice_rain, the Vec is shuffled into
\* the order f, the entry is inserted and the forecast is returned.
Shuffle(f) ==
    /\ pc = "shuffle"
    /\ forecast' = Insert(forecast, "Practice",
                          Permuted(OverrideLast(options, practice_rain[1]), f))
    /\ options' = << >>
    /\ pc' = "done"
    /\ UNCHANGED << config, warned, probabilities, current_values, weather_slots, sessions, race_rain,
                    practice_rain >>

\* A draw of whichever sampling loop is running.
Draw(r) ==
    \/ DrawRace(r)
    \/ DrawQuali(r)
    \/ DrawInGroup(r)
    \/ DrawPractice(r)

Generate ==
    \/ \E requested \in SUBSET Sessions : Call(requested)
    \/ SkipRace
    \/ SkipQuali
    \/ SkipPracticeRain
    \/ SkipPractice
    \/ \E r \in DrawRange(current_values) : Draw(r)
    \/ \E f \in ShuffleOrders(Len(options)) : Shuffle(f)

Next == New \/ Generate

\* ------------------------------------------------------------------ inputs

\* The options a generated configuration gives weight to: a dry option, and
\* rain of intensity 1 and of intensity 3 twice (one group).
Focus == { "Clear", "LightRain", "Storm", "Thunderstorm" }

\* The largest configured weight, in halves.
MaxWeight == 1

\* The largest configured slot count (above the clamp bound).
MaxCfgSlots == 5

\* The largest slot count configured together with a table of quarters.
MaxQuarterSlots == 2

\* Configured probabilities: the options of `listed`, those of Focus with
\* the weights w[o] / parts and the others with 0.0.
Listing(listed, w, parts) ==
    [ o \in listed |-> IF o \in Focus THEN Decimal(w[o], parts) ELSE Zero ]

\* Every option listed, or every option but LightCloud (which then takes the
\* whole remaining probability).
Listed == { WeatherOptions, WeatherOptions \ {"LightCloud"} }

\* Every option listed, with weights of 0 .. MaxWeight halves: at most two options of Focus share the
\* whole probability, and three or more exceed it.
HalfProbabilities ==
    { Listing(WeatherOptions, w, 2) : w \in [ Focus -> 0..MaxWeight ] }

\* Weights of no or one quarter: up to four options of Focus and LightCloud.
QuarterProbabilities ==
    { Listing(listed, w, 4) : listed \in Listed, w \in [ Focus -> 0..1 ] }

\* Configured slot counts: nothing (the defaults), or one count for Race
\* alone, or one count for every session.
AnyWeatherSlots ==
    { [ s \in D |-> v ] : D \in { {}, {"Race"}, Sessions }, v \in 0..MaxCfgSlots }

SmallWeatherSlots ==
    { [ s \in Sessions |-> v ] : v \in 0..MaxQuarterSlots }

QuarterConfigs ==
    { [ probabilities |-> p, weather_slots |-> w ] :
        p \in QuarterProbabilities, w \in SmallWeatherSlots }

GenConfigs ==
    { [ probabilities |-> p, weather_slots |-> w ] :
        p \in HalfProbabilities, w \in AnyWeatherSlots }
    \cup QuarterConfigs

\* The largest weight, in tenths, of a configuration that is only constructed.
MaxTenths == 6

\* Configurations for construction alone: the default one, and up to three
\* options listed with weights of 0 .. MaxTenths tenths (the other twelve or
\* more share what remains, if anything does).
NewConfigs ==
    { DefaultConfig }
    \cup { [ probabilities |-> p, weather_slots |-> << >> ] :
             p \in UNION { [ D -> { Decimal(k, 10) : k \in 0..MaxTenths } ] :
                             D \in SUBSET { "Clear", "Rain", "Random" } } }

Init ==
    /\ config \in GenConfigs
    /\ pc = "new"
    /\ warned = FALSE
    /\ probabilities = NoTable
    /\ current_values = CurrentValues(NoTable)
    /\ weather_slots = [ s \in Sessions |-> 0 ]
    /\ sessions = {}
    /\ forecast = << >>
    /\ options = << >>
    /\ race_rain = None
    /\ practice_rain = None

Spec == Init /\ [][Next]_vars

\* ------------------------------------------------------------------ properties

\* generate_forecast has returned `forecast`.
Returned == pc = "done"

\* WeatherForecaster::new has returned a forecaster.
Constructed == pc \notin { "new", "panic" }

HasRain(seq) == \E i \in 1..Len(seq) : rain_intensity(seq[i]) > 0

NoRepeat(seq) == \A i, j \in 1..Len(seq) : seq[i] = seq[j] => i = j

\* C1: a returned forecast whose Qualifying entry contains a condition of
\* rain_intensity > 0 was requested with Race, and its Race entry contains a
\* condition of rain_intensity > 0 as well.
C1_QualifyingRainNeedsRaceRain ==
    (Returned /\ "Qualifying" \in DOMAIN forecast /\ HasRain(forecast["Qualifying"]))
        => /\ "Race" \in sessions
           /\ "Race" \in DOMAIN forecast
           /\ HasRain(forecast["Race"])

C1_Witness ==
    /\ Returned
    /\ "Qualifying" \in DOMAIN forecast
    /\ HasRain(forecast["Qualifying"])
    /\ \E i \in 1..Len(forecast["Race"]) : rain_intensity(forecast["Race"][i]) = 0

\* C2 as claimed: in a returned forecast with Race and Practice, Practice
\* contains a member of the group of every rain condition of Race.
C2_EveryRaceRainGroupInPractice ==
    (Returned /\ { "Race", "Practice" } \subseteq DOMAIN forecast)
        => \A c \in Range(forecast["Race"]) :
              rain_intensity(c) > 0
                  => Range(forecast["Practice"]) \cap get_group(c) # {}

\* C2, amended: in a returned forecast with Race and Practice, Practice
\* contains a member of the group of every condition of Race whose
\* rain_intensity is the largest of Race's sequence and is > 0.
C2_MaxRaceRainGroupInPractice ==
    (Returned /\ { "Race", "Practice" } \subseteq DOMAIN forecast)
        => \A c \in Range(forecast["Race"]) :
              ( /\ rain_intensity(c) > 0
                /\ \A d \in Range(forecast["Race"]) : rain_intensity(d) <= rain_intensity(c) )
                  => Range(forecast["Practice"]) \cap get_group(c) # {}

\* Race rained with conditions of two groups, and Practice has more slots
\* than the one that is overwritten.
C2_Witness ==
    /\ Returned
    /\ { "Race", "Practice" } \subseteq DOMAIN forecast
    /\ \E c, d \in Range(forecast["Race"]) :
          /\ rain_intensity(c) > rain_intensity(d)
          /\ rain_intensity(d) > 0
          /\ get_group(c) # get_group(d)
          /\ Range(forecast["Practice"]) \cap get_group(c) # {}
    /\ Len(forecast["Practice"]) > 1

\* No dry option of the table p has a positive weight.
NoDryOption(p) == \A o \in WeatherOptions : rain_intensity(o) = 0 => ~Less(Zero, p[o])

\* The whole weight of the table p is on rain conditions.
AllOnRain(p) == NoDryOption(p) /\ \E o \in WeatherOptions : Less(Zero, p[o])

\* C3 as claimed: new ends in a hard error for a configuration whose
\* sanitised table has all its weight on rain conditions (no forecaster
\* holds such a table), so that the dry-only sampler is never entered with a
\* table it cannot return from.
C3_NoDryOptionIsRejected ==
    /\ Constructed => ~AllOnRain(probabilities)
    /\ (pc \in { "quali", "practice" } /\ race_rain = None)
          => \E r \in DrawRange(current_values) :
                Accepted(Selected(current_values, r), FALSE)

\* The configured weights sum to more than 1.0 in whatever order they are added.
Overweight == \A accumulated \in accumulated_probability(config) : Less(One, accumulated)

\* C4 as claimed: configured weights that sum to more than 1.0 give the
\* warning and a forecaster whose table is the configured weights times
\* 1.0 / their sum (0.0 for the options not listed).
C4_OverweightIsNormalized ==
    (pc # "new" /\ Overweight)
        => /\ pc # "panic"
           /\ warned
           /\ \E accumulated \in accumulated_probability(config) :
                 \A o \in WeatherOptions :
                    probabilities[o] =
                        FMul(IF o \in DOMAIN config.probabilities
                             THEN config.probabilities[o] ELSE Zero,
                             FDiv(One, accumulated))

\* The sampled sequences of the model: the Vec being filled, with the
\* might_rain and the slot count it is sampled for, and the entries of Race
\* and Qualifying, which are inserted as sampled.
Sampling ==
    IF pc = "race" THEN { [ seq |-> options, rain |-> TRUE, slots |-> weather_slots["Race"] ] }
    ELSE IF pc = "quali"
    THEN { [ seq |-> options, rain |-> race_rain # None,
             slots |-> weather_slots["Qualifying"] ] }
    ELSE IF pc \in { "practice", "shuffle" }
    THEN { [ seq |-> options, rain |-> race_rain # None,
             slots |-> weather_slots["Practice"] ] }
    ELSE {}

Sampled ==
    Sampling
    \cup { [ seq |-> forecast[s], rain |-> TRUE, slots |-> weather_slots[s] ] :
             s \in DOMAIN forecast \cap { "Race" } }
    \cup { [ seq |-> forecast[s], rain |-> race_rain # None, slots |-> weather_slots[s] ] :
             s \in DOMAIN forecast \cap { "Qualifying" } }
    \cup { [ seq |-> forecast[s], rain |-> FALSE, slots |-> weather_slots[s] ] :
             s \in { t \in DOMAIN forecast \cap { "Practice" } : race_rain = None } }

\* usable_count(allow_rain) of the spec, counted from the table.
UsableCount(allow_rain) ==
    Cardinality({ o \in WeatherOptions :
                    /\ Less(Zero, probabilities[o])
                    /\ (allow_rain \/ rain_intensity(o) = 0) })

\* C6: a sequence sampled for slot_count <= usable_count(allow_rain) slots
\* never contains a condition twice, while it is filled and when returned.
C6_NoDuplicatesWhenEnoughUsable ==
    \A x \in Sampled : x.slots <= UsableCount(x.rain) => NoRepeat(x.seq)

\* A dry-only Qualifying session of two slots was sampled from two dry options.
C6_Witness ==
    /\ Returned
    /\ "Qualifying" \in DOMAIN forecast
    /\ race_rain = None
    /\ Len(forecast["Qualifying"]) = 2
    /\ UsableCount(FALSE) = 2
    /\ UsableCount(TRUE) > 2

\* C7: a sequence sampled with allow_rain = false for n <= usable_count(false)
\* slots contains only conditions of rain_intensity 0.
C7_DryOnlySessionIsDry ==
    \A x \in Sampled : (~x.rain /\ x.slots <= UsableCount(FALSE)) => ~HasRain(x.seq)

\* Race was requested and stayed dry although the table has rain; Practice
\* was then sampled dry-only.
C7_Witness ==
    /\ Returned
    /\ race_rain = None
    /\ "Race" \in DOMAIN forecast
    /\ "Practice" \in DOMAIN forecast
    /\ Len(forecast["Practice"]) >= 2
    /\ Len(forecast["Practice"]) <= UsableCount(FALSE)
    /\ UsableCount(TRUE) > UsableCount(FALSE)

\* The slot count the configuration asks for: the configured count, or the
\* default of the session, brought into 1 .. 4.
ExpectedSlots(s) ==
    LET asked == IF s \in DOMAIN config.weather_slots THEN config.weather_slots[s]
                 ELSE IF s = "Qualifying" THEN 2 ELSE 4
    IN IF asked < 1 THEN 1 ELSE IF asked > 4 THEN 4 ELSE asked

\* C8: a returned forecast has an entry for exactly the requested sessions,
\* each as long as the clamped configured (or default) slot count.
C8_EntriesAndLengths ==
    Returned => /\ DOMAIN forecast = sessions
                /\ \A s \in sessions : Len(forecast[s]) = ExpectedSlots(s)

\* All three sessions, counts configured above 4, the with-replacement
\* branch (one usable option), and the Practice override and shuffle.
C8_Witness ==
    /\ Returned
    /\ sessions = Sessions
    /\ \A s \in Sessions : s \in DOMAIN config.weather_slots /\ config.weather_slots[s] > 4
    /\ UsableCount(TRUE) < 4
    /\ practice_rain # None

\* The configured weights sum to at most 1.0 in whatever order they are added.
AtMostOne == \A accumulated \in accumulated_probability(config) : ~Less(One, accumulated)

\* C9 as claimed: new returns a forecaster for weights totalling at most
\* 1.0, and its table holds non-negative numbers that sum to 1.0 (in one
\* order of addition at least).
C9_TableSumsToOne ==
    (pc # "new" /\ AtMostOne)
        => /\ pc # "panic"
           /\ \A o \in WeatherOptions : probabilities[o] = Zero \/ Less(Zero, probabilities[o])
           /\ One \in SumOver(probabilities, WeatherOptions)

\* ------------------------------------------------- construction alone

NewInit ==
    /\ config \in NewConfigs
    /\ pc = "new"
    /\ warned = FALSE
    /\ probabilities = NoTable
    /\ current_values = CurrentValues(NoTable)
    /\ weather_slots = [ s \in Sessions |-> 0 ]
    /\ sessions = {}
    /\ forecast = << >>
    /\ options = << >>
    /\ race_rain = None
    /\ practice_rain = None

SpecNew == NewInit /\ [][New]_vars

RECURSIVE IterSum(_, _, _)
\* WeatherOptions::iter().map(..).sum() from position i on: the f64
\* additions in declaration order.
IterSum(f, i, sum) ==
    IF i > Len(OptionOrder) THEN sum
    ELSE IterSum(f, i + 1, FAdd(sum, f[OptionOrder[i]]))

RECURSIVE IntSum(_, _)
IntSum(f, S) ==
    IF S = {} THEN 0
    ELSE LET x == CHOOSE y \in S : TRUE IN f[x] + IntSum(f, S \ {x})

\* The sum of the default weights as tests::sane_probabilities takes it.
DeclarationSum == IterSum(get_default_probablities, 1, Zero)

\* The sums of the fourteen default weights other than Random, over the
\* orders they can be added in.
DefaultSums == SumOver(get_default_probablities, WeatherOptions \ { "Random" })

\* C10 as claimed: the default weights of the fourteen options other than
\* Random sum to exactly 1.0 (added as tests::sane_probabilities adds them,
\* in declaration order), and that of Random is 0.0.  Stated of the
\* configuration that holds the default weights.
C10_DefaultWeightsSumExactlyToOne ==
    config = DefaultConfig
        => /\ DeclarationSum = One
           /\ get_default_probabiliy("Random") = Zero

\* C10, amended: the numerators of the fourteen weights sum to 14.0 (140
\* tenths) and the weight of Random is 0.0; the f64 weights sum to 1.0 up to
\* rounding only: to 1.0 - 2^-52 in declaration order, and over the orders
\* a HashMap can add them in to one of 1.0 - 2^-51, 1.0 - 3 * 2^-53,
\* 1.0 - 2^-52, 1.0 - 2^-53, 1.0 and 1.0 + 2^-52.  Stated of the
\* configuration that holds the default weights.
C10_DefaultWeightsSumToOne ==
    LET below(k) == [ hi |-> Top - 1, lo |-> Word - k, e |-> 0 - 53 ]
        above    == [ hi |-> Top \div 2, lo |-> 1, e |-> 0 - 52 ]
    IN config = DefaultConfig
          => /\ IntSum([ o \in WeatherOptions |-> DefaultNumerator(o) ],
                       WeatherOptions \ { "Random" }) = 10 * 14
             /\ get_default_probabiliy("Random") = Zero
             /\ DeclarationSum = below(2)
             /\ DefaultSums = { below(4), below(3), below(2), below(1), One, above }

\* The forecaster built from Config::default() after the warning: its
\* weights were added up to more than 1.0.
C10_Witness == config = DefaultConfig /\ pc = "ready" /\ warned

\* ------------------------------------------------- termination

\* A draw of the running loop, whatever it selects.
DrawAny == \E r \in DrawRange(current_values) : Draw(r)

\* The steps of generate_forecast that draw nothing from the sampler.
Step ==
    \/ SkipRace
    \/ SkipQuali
    \/ SkipPracticeRain
    \/ SkipPractice
    \/ \E f \in ShuffleOrders(Len(options)) : Shuffle(f)

\* generate_forecast runs to completion on its one thread, so a step that
\* can be taken is taken.  A draw that is rejected (by the dry-only loop, the
\* skip-duplicates loop or the group loop) leaves the state as it is and is
\* followed by another draw; fair draws select at last every option of
\* positive weight, hence one that the running loop accepts when there is
\* one.  WF_vars(DrawAny) asks for no more than that: while some draw would
\* be accepted, an accepted draw happens.
Fairness ==
    /\ WF_vars(Step)
    /\ WF_vars(DrawAny)

\* Three options listed with weights in tenths that add up to 1.0 or to
\* 1.0 - 2^-53, with four slots for Race and one for the other sessions.
TenthsConfig ==
    [ probabilities |-> [ o \in { "Clear", "Rain", "Random" } |->
                            CASE o = "Clear" -> Decimal(1, 10)
                              [] o = "Rain" -> Decimal(3, 10)
                              [] o = "Random" -> Decimal(6, 10) ],
      weather_slots |-> [ s \in Sessions |-> IF s = "Race" THEN 4 ELSE 1 ] ]

\* The configurations with tables of quarters that leave LightCloud unlisted
\* and give Thunderstorm no weight (LightCloud, dry, has a positive weight,
\* beside any of Clear, LightRain and Storm), and the one of tenths.
FairInit ==
    /\ config \in { c \in QuarterConfigs :
                       /\ "LightCloud" \notin DOMAIN c.probabilities
                       /\ c.probabilities["Thunderstorm"] = Zero }
                  \cup { TenthsConfig }
    /\ pc = "new"
    /\ warned = FALSE
    /\ probabilities = NoTable
    /\ current_values = CurrentValues(NoTable)
    /\ weather_slots = [ s \in Sessions |-> 0 ]
    /\ sessions = {}
    /\ forecast = << >>
    /\ options = << >>
    /\ race_rain = None
    /\ practice_rain = None

FairSpec == FairInit /\ [][Next]_vars /\ Fairness

\* A call of generate_forecast is running.
Running == pc \in { "race", "quali", "practice_rain", "practice", "shuffle" }

HasDryOption ==
    \E o \in WeatherOptions : rain_intensity(o) = 0 /\ Less(Zero, probabilities[o])

\* C5 as claimed: under fair draws a running call of generate_forecast on a
\* table with a dry option of positive weight returns.
C5_CallReturns == (Running /\ HasDryOption) ~> Returned

\* ------------------------------------------------- the Practice override

\* How often the option o occurs in seq.
Count(seq, o) == Cardinality({ i \in 1..Len(seq) : seq[i] = o })

\* b is a permutation of a.
IsPermutation(a, b) ==
    /\ Len(a) = Len(b)
    /\ Range(a) = Range(b)
    /\ \A o \in Range(a) : Count(a, o) = Count(b, o)

\* The conditions of seq whose rain_intensity is the largest of seq.
MostRain(seq) ==
    { c \in Range(seq) : \A d \in Range(seq) : rain_intensity(d) <= rain_intensity(c) }

\* The configurations with tables of quarters over LightCloud (unlisted, so
\* dry with what remains), LightRain, Storm and Thunderstorm: Race may stay
\* dry or rain with one or two groups, and the group of Storm has two members.
PracticeInit ==
    /\ Init
    /\ config \in QuarterConfigs
    /\ "LightCloud" \notin DOMAIN config.probabilities
    /\ config.probabilities["Clear"] = Zero

SpecPractice == PracticeInit /\ [][Next]_vars

\* C11: the step that inserts the Practice entry.  After a requested Race
\* with rain it is the step after the sampling (the Vec `options` is the
\* sampled sequence), and the entry is a permutation of the sampled sequence
\* with its last slot replaced by a member of the group of Race's condition
\* of most rain, so it contains such a member; otherwise the entry is the
\* sampled sequence itself: the Vec as filled so far and the last draw.
C11_PracticeOverrideThenShuffle ==
    [][ ("Practice" \notin DOMAIN forecast /\ "Practice" \in DOMAIN forecast')
          => IF "Race" \in sessions /\ "Race" \in DOMAIN forecast /\ HasRain(forecast["Race"])
             THEN /\ pc = "shuffle"
                  /\ Len(options) = weather_slots["Practice"]
                  /\ \E m \in MostRain(forecast["Race"]) :
                        /\ \E g \in get_group(m) :
                              IsPermutation([ options EXCEPT ![Len(options)] = g ],
                                            forecast'["Practice"])
                        /\ Range(forecast'["Practice"]) \cap get_group(m) # {}
             ELSE /\ pc = "practice"
                  /\ Len(forecast'["Practice"]) = Len(options) + 1
                  /\ SubSeq(forecast'["Practice"], 1, Len(options)) = options
      ]_vars

\* Race rained; the Practice entry holds the forced member of the group in a
\* slot that is not the last, and its last slot holds a dry condition.
C11_Witness ==
    /\ Returned
    /\ practice_rain # None
    /\ "Practice" \in DOMAIN forecast
    /\ Len(forecast["Practice"]) >= 2
    /\ rain_intensity(forecast["Practice"][Len(forecast["Practice"])]) = 0
    /\ \E i \in 1..(Len(forecast["Practice"]) - 1) :
          forecast["Practice"][i] \in get_group(race_rain[1])

\* ------------------------------------------------- variety of the entries

\* The allow_rain a session of the returned forecast was sampled with.
AllowRainOf(s) == IF s = "Race" THEN TRUE ELSE race_rain # None

\* C12 as claimed: in a returned forecast every entry, that of Practice
\* included, of a session with usable_count(allow_rain) >= its slot count is
\* without a repeated condition.
C12_NoRepeatInAnyEntry ==
    Returned => \A s \in DOMAIN forecast :
                   UsableCount(AllowRainOf(s)) >= weather_slots[s] => NoRepeat(forecast[s])

\* C12, amended: the same for the entries of Race and of Qualifying, and for
\* that of Practice when Race was not requested or stayed dry (no override).
C12_NoRepeatInSampledEntry ==
    Returned => \A s \in DOMAIN forecast :
                   ( /\ UsableCount(AllowRainOf(s)) >= weather_slots[s]
                     /\ (s = "Practice" => race_rain = None) )
                       => NoRepeat(forecast[s])

\* All three entries of two slots, each from at least as many usable options
\* and without a repeat; Race stayed dry although the table has rain.
C12_Witness ==
    /\ Returned
    /\ DOMAIN forecast = Sessions
    /\ race_rain = None
    /\ UsableCount(TRUE) > UsableCount(FALSE)
    /\ \A s \in Sessions :
          /\ weather_slots[s] = 2
          /\ UsableCount(AllowRainOf(s)) >= 2
          /\ NoRepeat(forecast[s])

\* ------------------------------------------------- one sampled option

\* forecaster.generate_weather_option(true), called on the constructed
\* forecaster as tests::options_picked_correctly calls it, any number of
\* times: with might_rain the first selection is returned.
Pick(r) ==
    /\ pc \in { "ready", "picked" }
    /\ options' = << Selected(current_values, r) >>
    /\ pc' = "picked"
    /\ UNCHANGED << config, warned, probabilities, current_values, weather_slots, sessions, forecast,
                    race_rain, practice_rain >>

PickAny == \E r \in DrawRange(current_values) : Pick(r)

SpecPick == NewInit /\ [][New \/ PickAny]_vars

\* C13 as claimed: with might_rain = true, on a table of numbers, every draw
\* selects an option of positive weight (the first, in declaration order, at
\* which the cumulative weight strictly exceeds the draw): an option of
\* weight 0.0 is never returned.
C13_FirstExceedingCumulative ==
    (Constructed /\ \A o \in WeatherOptions : probabilities[o] # NaN)
        => /\ \A r \in DrawRange(current_values) :
                 Less(Zero, probabilities[Selected(current_values, r)])
           /\ pc = "picked" => Less(Zero, probabilities[options[1]])

\* ------------------------------------------------- the group of the rain

\* The groups of the most intense conditions of a set of conditions.
GroupsOfMostRain(S) ==
    { get_group(c) : c \in { c \in S : \A d \in S : rain_intensity(d) <= rain_intensity(c) } }

\* C14: two options of the same nonzero rain intensity are in the same group
\* and every option is in its own group; so once Race is sampled with rain,
\* the group that rain is forced into Practice from is the one group of the
\* most intense conditions of Race's set, whichever of them max_by_key
\* returns (it returns the last) and in whatever order the slots are.
C14_RainGroupFromRaceSet ==
    /\ \A c \in WeatherOptions :
          /\ c \in get_group(c)
          /\ \A d \in WeatherOptions :
                (rain_intensity(c) > 0 /\ rain_intensity(c) = rain_intensity(d))
                    => get_group(c) = get_group(d)
    /\ race_rain # None
          => /\ "Race" \in DOMAIN forecast
             /\ race_rain[1] \in MostRain(forecast["Race"])
             /\ \A i \in 1..Len(forecast["Race"]) :
                   rain_intensity(forecast["Race"][i]) = rain_intensity(race_rain[1])
                       => \E j \in i..Len(forecast["Race"]) : forecast["Race"][j] = race_rain[1]
             /\ GroupsOfMostRain(Range(forecast["Race"])) = { get_group(race_rain[1]) }
             /\ \A f \in ShuffleOrders(Len(forecast["Race"])) :
                   get_group(MaxByRainIntensity(Permuted(forecast["Race"], f)))
                       = get_group(race_rain[1])
             /\ practice_rain # None => get_group(practice_rain[1]) = get_group(race_rain[1])

\* Race holds Storm and Thunderstorm, equally intense; max_by_key returned
\* the later of the two, and Practice got its rain from their group.
C14_Witness ==
    /\ Returned
    /\ race_rain # None /\ practice_rain # None
    /\ { "Storm", "Thunderstorm" } \subseteq Range(forecast["Race"])
    /\ \E i \in 1..Len(forecast["Race"]) :
          /\ forecast["Race"][i] \in { "Storm", "Thunderstorm" }
          /\ forecast["Race"][i] # race_rain[1]
          /\ \E j \in (i + 1)..Len(forecast["Race"]) : forecast["Race"][j] = race_rain[1]
    /\ practice_rain[1] \in { "Storm", "Thunderstorm" }
====
